---- MODULE Spec2Model ----
(***************************************************************************)
(* Model of "Printer Queue.cpp": a simulated clock drives a pool of        *)
(* printers, each with a FIFO queue of print jobs; every 30 simulated      *)
(* seconds a job of random size is created and sent to the printer with    *)
(* the fewest pages left.                                                  *)
(*                                                                         *)
(* Time is counted in microseconds since the instant sampled by Setup().   *)
(* One step of the model is one iteration of the loop of Run() (the time   *)
(* sample, ShouldUpdate() and, when it fires, the whole of Update()), or   *)
(* Cleanup().                                                              *)
(***************************************************************************)
EXTENDS Integers, Sequences, FiniteSets

\* ---------------------------------------------------------------- constants
MILLISECONDS_PER_SECOND == 1000
SECONDS_PER_MINUTE == 60
SHEETS_PER_MINUTE == 7
MILLISECONDS_PER_SHEET == (MILLISECONDS_PER_SECOND * SECONDS_PER_MINUTE) \div SHEETS_PER_MINUTE
SIMULATION_SPEED == 300
\* std::chrono::seconds(30), the period of the arrivals
timePerJob == 30
\* std::chrono::milliseconds(1), the sleep that ends an iteration of Run()
SleepMilliseconds == 1

\* ---------------------------------------------------------------- bounds
\* The two simulation settings the source invites to change.
NUMBER_OF_PRINTERS == 2
SECONDS_TO_SIMULATE == 121
\* Real microseconds between two samples of the clock in Run(): the nominal
\* 1 ms sleep, and a late wake-up that advances simulated time by 3 seconds.
RealDeltas == {1000, 10000}
\* Number of late wake-ups in one run.
MaxLateSamples == 1
\* Microseconds between the sample taken in Run() and the call of now() that
\* initialises lastUpdate in the first call of ShouldUpdate().
NowLag == {1}
\* The values rand() returns.
RandValues == {1, 6}
\* The samples of a run in which the process is stalled once for 101 ms
\* (30.3 simulated seconds, more than the period of the arrivals).
StallDeltas == {1000, 101000}
\* The values rand() returns in such a run: every job has 12 pages.
StallRand == {16}
\* The largest value of rand() and the largest page count given to
\* PrintJob::PrintJob when the two are exercised on their own.
MaxRand == 49
MaxPagesArg == 2
\* The number of jobs constructed when PrintJob::PrintJob is exercised on
\* its own.
MaxJobsMade == 40

Printers == 0 .. (NUMBER_OF_PRINTERS - 1)

VARIABLES
    pc,              \* "Run": in the loop of Run(); "Done": after Cleanup()
    simulatedTime,   \* static simulatedTime
    realTime,        \* static realTime
    lastUpdate,      \* static local of ShouldUpdate()
    lastUpdateSet,   \* the static local lastUpdate has been initialised
    nextJobTime,     \* static local of Update()
    nextJobTimeSet,  \* the static local nextJobTime has been initialised
    jobCount,        \* static local of PrintJob::PrintJob
    printers,        \* static std::vector<Printer> printers
    events,          \* the lines written to std::cout, in order
    lastTick,        \* simulatedTime at the last call of Update()
    lastRoute,       \* the routing decision of the last call of Update()
    report,          \* what Cleanup() printed
    lateSamples,     \* late wake-ups so far
    ticks,           \* calls of Update() so far
    tickAnchor,      \* the value lastUpdate was initialised with
    jobAnchor,       \* the value nextJobTime was initialised with
    drawn,           \* the last call of GetRandomPrintJob(): draws and result
    made             \* the last call of PrintJob::PrintJob: argument and job

vars == <<pc, simulatedTime, realTime, lastUpdate, lastUpdateSet, nextJobTime,
          nextJobTimeSet, jobCount, printers, events, lastTick, lastRoute,
          report, lateSamples, ticks, tickAnchor, jobAnchor, drawn, made>>

\* ---------------------------------------------------------------- durations
\* duration_cast truncates toward zero.
TruncDiv(a, b) == IF a >= 0 THEN a \div b ELSE -((-a) \div b)

ToMilliseconds(us) == TruncDiv(us, 1000)

ToSeconds(us) == TruncDiv(us, 1000 * MILLISECONDS_PER_SECOND)

Seconds(s) == s * MILLISECONDS_PER_SECOND * 1000

\* ---------------------------------------------------------------- PrintJob
PrintJob(id, pages) == [ID |-> id, Pages |-> pages]

\* ---------------------------------------------------------------- Printer
NewPrinter ==
    [start |-> 0, pagesPrinted |-> 0, totalPagesRemaining |-> 0,
     printQueue |-> <<>>, printing |-> FALSE]

\* A line of output: GetTime() at its head, the printer and the job it names,
\* and pagesPrinted of the printer when it is written.
Event(kind, i, job, printed, now) ==
    [kind |-> kind, printer |-> i, ID |-> job.ID, Pages |-> job.Pages,
     printed |-> printed, at |-> now]

NoJobs(p) == Len(p.printQueue) < 1

IsIdle(p) == ~p.printing

PagesLeft(p) ==
    IF NoJobs(p) THEN 0 ELSE Head(p.printQueue).Pages - p.pagesPrinted

\* JobComplete() with the comparison off by one page.
JobCompleteEarly(p) == PagesLeft(p) <= 1

JobComplete(p) == PagesLeft(p) = 0

GetTotalPagesLeft(p) ==
    IF NoJobs(p) THEN 0 ELSE p.totalPagesRemaining - p.pagesPrinted

\* CheckStartNextJob() without line 148.
CheckStartNextJobKeepStart(p, i, now) ==
    IF NoJobs(p) \/ ~IsIdle(p)
    THEN [printer |-> p, out |-> <<>>]
    ELSE [printer |-> [p EXCEPT !.printing = TRUE],
          out |-> <<Event("started", i, Head(p.printQueue), p.pagesPrinted,
                           now)>>]

\* The result of a method that writes to std::cout: the printer afterwards
\* and the lines written.
CheckStartNextJob(p, i, now) ==
    IF NoJobs(p) \/ ~IsIdle(p)
    THEN [printer |-> p, out |-> <<>>]
    ELSE [printer |-> [p EXCEPT !.start = now, !.printing = TRUE],
          out |-> <<Event("started", i, Head(p.printQueue), p.pagesPrinted,
                           now)>>]

\* PagesPrintedAt with the division rounded up.
PagesPrintedAtRoundedUp(p, now) ==
    LET timeSinceStart == ToMilliseconds(now - p.start)
        printed == TruncDiv(timeSinceStart + MILLISECONDS_PER_SHEET - 1,
                            MILLISECONDS_PER_SHEET)
        currentJob == Head(p.printQueue)
    IN  IF printed > currentJob.Pages THEN currentJob.Pages ELSE printed

\* Lines 95-99 of Printer::Update: the pages printed since the job started.
PagesPrintedAt(p, now) ==
    LET timeSinceStart == ToMilliseconds(now - p.start)
        printed == TruncDiv(timeSinceStart, MILLISECONDS_PER_SHEET)
        currentJob == Head(p.printQueue)
    IN  IF printed > currentJob.Pages THEN currentJob.Pages ELSE printed

\* RemoveCompletedJob without line 104.
RemoveCompletedJobKeepTotal(p) ==
    [p EXCEPT !.printQueue = Tail(@), !.printing = FALSE]

\* RemoveCompletedJob without line 106.
RemoveCompletedJobStillPrinting(p) ==
    [p EXCEPT !.totalPagesRemaining = @ - Head(p.printQueue).Pages,
              !.printQueue = Tail(@)]

\* Lines 104-106 of Printer::Update.
RemoveCompletedJob(p) ==
    [p EXCEPT !.totalPagesRemaining = @ - Head(p.printQueue).Pages,
              !.printQueue = Tail(@),
              !.printing = FALSE]

PrinterUpdate(p, i, now) ==
    IF NoJobs(p)
    THEN [printer |-> p, out |-> <<>>]
    ELSE LET p1 == [p EXCEPT !.pagesPrinted = PagesPrintedAt(p, now)]
         IN  IF JobComplete(p1)
             THEN LET next == CheckStartNextJob(RemoveCompletedJob(p1), i, now)
                  IN  [printer |-> next.printer,
                       out |-> <<Event("finished", i, Head(p1.printQueue),
                                       p1.pagesPrinted, now)>> \o next.out]
             ELSE [printer |-> p1, out |-> <<>>]

\* Printer::Print with the job put at the front of the queue.
PrinterPrintFront(p, i, job, now) ==
    LET p1 == [p EXCEPT !.printQueue = <<job>> \o @,
                        !.totalPagesRemaining = @ + job.Pages]
        added == <<Event("added", i, job, p.pagesPrinted, now)>>
    IN  IF Len(p1.printQueue) = 1
        THEN LET next == CheckStartNextJob(p1, i, now)
             IN  [printer |-> next.printer, out |-> added \o next.out]
        ELSE [printer |-> p1, out |-> added]

\* Printer::Print
PrinterPrint(p, i, job, now) ==
    LET p1 == [p EXCEPT !.printQueue = Append(@, job),
                        !.totalPagesRemaining = @ + job.Pages]
        added == <<Event("added", i, job, p.pagesPrinted, now)>>
    IN  IF Len(p1.printQueue) = 1
        THEN LET next == CheckStartNextJob(p1, i, now)
             IN  [printer |-> next.printer, out |-> added \o next.out]
        ELSE [printer |-> p1, out |-> added]

\* ---------------------------------------------------------------- dispatcher
\* GetRandomPrintJob() with the last tier as its comment has it, 51-100.
GetRandomPrintJobHundred(r1, r2) ==
    LET r == r1 % 10
    IN  IF r <= 3 THEN 1 + (r2 % 10)
        ELSE IF r <= 6 THEN 11 + (r2 % 15)
        ELSE IF r <= 8 THEN 26 + (r2 % 25)
        ELSE 51 + (r2 % 50)

GetRandomPrintJob(r1, r2) ==
    LET r == r1 % 10
    IN  IF r <= 3 THEN 1 + (r2 % 10)
        ELSE IF r <= 6 THEN 11 + (r2 % 15)
        ELSE IF r <= 8 THEN 26 + (r2 % 25)
        ELSE 51 + (r2 % 49)

\* ScanPrinters without the break of line 235.
RECURSIVE ScanPrintersNoBreak(_, _, _)
ScanPrintersNoBreak(ps, i, sel) ==
    IF i >= NUMBER_OF_PRINTERS THEN sel
    ELSE IF NoJobs(ps[i]) THEN ScanPrintersNoBreak(ps, i + 1, i)
    ELSE IF i = 0 THEN ScanPrintersNoBreak(ps, i + 1, sel)
    ELSE IF GetTotalPagesLeft(ps[i]) < GetTotalPagesLeft(ps[sel])
         THEN ScanPrintersNoBreak(ps, i + 1, i)
         ELSE ScanPrintersNoBreak(ps, i + 1, sel)

\* ScanPrinters with <= for the < of line 244.
RECURSIVE ScanPrintersLessEq(_, _, _)
ScanPrintersLessEq(ps, i, sel) ==
    IF i >= NUMBER_OF_PRINTERS THEN sel
    ELSE IF NoJobs(ps[i]) THEN i
    ELSE IF i = 0 THEN ScanPrintersLessEq(ps, i + 1, sel)
    ELSE IF GetTotalPagesLeft(ps[i]) <= GetTotalPagesLeft(ps[sel])
         THEN ScanPrintersLessEq(ps, i + 1, i)
         ELSE ScanPrintersLessEq(ps, i + 1, sel)

\* The loop of lines 230-246 from index i on, selectedForNewJob being sel.
RECURSIVE ScanPrinters(_, _, _)
ScanPrinters(ps, i, sel) ==
    IF i >= NUMBER_OF_PRINTERS THEN sel
    ELSE IF NoJobs(ps[i]) THEN i
    ELSE IF i = 0 THEN ScanPrinters(ps, i + 1, sel)
    ELSE IF GetTotalPagesLeft(ps[i]) < GetTotalPagesLeft(ps[sel])
         THEN ScanPrinters(ps, i + 1, i)
         ELSE ScanPrinters(ps, i + 1, sel)

SelectPrinter(ps) == ScanPrinters(ps, 0, 0)

\* The loop of lines 212-215: every printer updated, in index order.
UpdatedPrinters(ps, now) ==
    [i \in Printers |-> PrinterUpdate(ps[i], i, now).printer]

RECURSIVE UpdateOutput(_, _, _)
UpdateOutput(ps, now, i) ==
    IF i >= NUMBER_OF_PRINTERS THEN <<>>
    ELSE PrinterUpdate(ps[i], i, now).out \o UpdateOutput(ps, now, i + 1)

NoRoute ==
    [fired |-> FALSE, sel |-> 0, job |-> PrintJob(0, 0),
     before |-> [i \in Printers |-> NewPrinter]]

\* ---------------------------------------------------------------- driver
\* ShouldUpdate(), lastUpdate being lu.
ShouldUpdate(sim, lu) ==
    ToMilliseconds(sim - lu) >= MILLISECONDS_PER_SECOND

\* JobIsDue with > for the >= of line 221.
JobIsDueLate(sim, njt) == ToSeconds(sim - njt) > timePerJob

\* The condition of line 221, nextJobTime being njt.
JobIsDue(sim, njt) == ToSeconds(sim - njt) >= timePerJob

\* The end of the run set a second early.
EndOfRunEarly == Seconds(SECONDS_TO_SIMULATE - 1)

EndOfRun == Seconds(SECONDS_TO_SIMULATE)

Init ==
    /\ pc = "Run"
    /\ simulatedTime = 0
    /\ realTime = 0
    /\ lastUpdate = 0
    /\ lastUpdateSet = FALSE
    /\ nextJobTime = 0
    /\ nextJobTimeSet = FALSE
    /\ jobCount = 0
    /\ printers = [i \in Printers |-> NewPrinter]
    /\ events = <<>>
    /\ lastTick = 0
    /\ lastRoute = NoRoute
    /\ report = [i \in Printers |-> [total |-> 0, jobs |-> <<>>]]
    /\ lateSamples = 0
    /\ ticks = 0
    /\ tickAnchor = 0
    /\ jobAnchor = 0
    /\ drawn = [called |-> FALSE, r1 |-> 0, r2 |-> 0, pages |-> 0]
    /\ made = [arg |-> 0, job |-> PrintJob(0, 0)]

\* A sample taken later than the sleep asks for.
IsLate(d) == d > SleepMilliseconds * 1000

\* Lines 287-291 and the call of ShouldUpdate(): the clocks advance by the
\* sampled delta d; lag is read only by the first call of ShouldUpdate().
Sample(d, lag) ==
    /\ pc = "Run"
    /\ simulatedTime < EndOfRun
    /\ IsLate(d) => lateSamples < MaxLateSamples
    /\ lateSamples' = IF IsLate(d) THEN lateSamples + 1 ELSE lateSamples
    /\ realTime' = realTime + d
    /\ simulatedTime' = simulatedTime + d * SIMULATION_SPEED
    /\ lastUpdateSet' = TRUE
    /\ LET lu == IF lastUpdateSet THEN lastUpdate ELSE realTime' + lag
       IN  /\ lastUpdate' = IF ShouldUpdate(simulatedTime', lu)
                             THEN lu + Seconds(1) ELSE lu
           /\ tickAnchor' = IF lastUpdateSet THEN tickAnchor ELSE lu

Fires(d, lag) ==
    ShouldUpdate(simulatedTime + d * SIMULATION_SPEED,
                 IF lastUpdateSet THEN lastUpdate ELSE realTime + d + lag)

\* An iteration of Run() in which ShouldUpdate() returns false, the sample
\* being drawn from D.
SleepFrom(D) ==
    \E d \in D, lag \in IF lastUpdateSet THEN {0} ELSE NowLag :
        /\ Sample(d, lag)
        /\ ~Fires(d, lag)
        /\ UNCHANGED <<pc, nextJobTime, nextJobTimeSet, jobCount, printers,
                       events, lastTick, lastRoute, report, ticks, jobAnchor,
                       drawn, made>>

Sleep == SleepFrom(RealDeltas)

\* An iteration of Run() that calls Update() when no job is due, the sample
\* being drawn from D.
TickFrom(D) ==
    \E d \in D, lag \in IF lastUpdateSet THEN {0} ELSE NowLag :
        /\ Sample(d, lag)
        /\ Fires(d, lag)
        /\ LET now == simulatedTime'
               njt == IF nextJobTimeSet THEN nextJobTime ELSE now
           IN  /\ ~JobIsDue(now, njt)
               /\ nextJobTime' = njt
               /\ nextJobTimeSet' = TRUE
               /\ printers' = UpdatedPrinters(printers, now)
               /\ events' = events \o UpdateOutput(printers, now, 0)
               /\ lastTick' = now
               /\ lastRoute' = NoRoute
               /\ jobAnchor' = IF nextJobTimeSet THEN jobAnchor ELSE now
        /\ ticks' = ticks + 1
        /\ UNCHANGED <<pc, jobCount, report, drawn, made>>

Tick == TickFrom(RealDeltas)

\* An iteration of Run() that calls Update() when a job is due: the printers
\* are updated, then the job is created and sent to the selected printer.
\* The sample is drawn from D and the values of rand() from R.
ArrivalFrom(D, R) ==
    \E d \in D, lag \in IF lastUpdateSet THEN {0} ELSE NowLag,
       r1 \in R, r2 \in R :
        /\ Sample(d, lag)
        /\ Fires(d, lag)
        /\ LET now == simulatedTime'
               njt == IF nextJobTimeSet THEN nextJobTime ELSE now
               ps == UpdatedPrinters(printers, now)
               job == PrintJob(jobCount, GetRandomPrintJob(r1, r2))
               sel == SelectPrinter(ps)
               sent == PrinterPrint(ps[sel], sel, job, now)
           IN  /\ JobIsDue(now, njt)
               /\ nextJobTime' = njt + Seconds(timePerJob)
               /\ nextJobTimeSet' = TRUE
               /\ jobCount' = jobCount + 1
               /\ printers' = [ps EXCEPT ![sel] = sent.printer]
               /\ events' = events \o UpdateOutput(printers, now, 0)
                                   \o <<Event("created", -1, job, 0, now)>>
                                   \o sent.out
               /\ lastTick' = now
               /\ lastRoute' = [fired |-> TRUE, sel |-> sel, job |-> job,
                                before |-> ps]
               /\ jobAnchor' = IF nextJobTimeSet THEN jobAnchor ELSE now
               /\ drawn' = [called |-> TRUE, r1 |-> r1, r2 |-> r2,
                            pages |-> job.Pages]
               /\ made' = [arg |-> job.Pages, job |-> job]
        /\ ticks' = ticks + 1
        /\ UNCHANGED <<pc, report>>

Arrival == ArrivalFrom(RealDeltas, RandValues)

\* Cleanup(): the total of every printer is written, then LogRemainingJobs()
\* empties its queue.
Cleanup ==
    /\ pc = "Run"
    /\ ~(simulatedTime < EndOfRun)
    /\ pc' = "Done"
    /\ report' = [i \in Printers |->
                    [total |-> GetTotalPagesLeft(printers[i]),
                     jobs |-> printers[i].printQueue]]
    /\ printers' = [i \in Printers |-> [printers[i] EXCEPT !.printQueue = <<>>]]
    /\ UNCHANGED <<simulatedTime, realTime, lastUpdate, lastUpdateSet,
                   nextJobTime, nextJobTimeSet, jobCount, events, lastTick,
                   lastRoute, lateSamples, ticks, tickAnchor, jobAnchor,
                   drawn, made>>

Next == Sleep \/ Tick \/ Arrival \/ Cleanup

Spec == Init /\ [][Next]_vars

\* A run in which the process is stalled for longer than the period of the
\* arrivals.
NextStall ==
    \/ SleepFrom(StallDeltas)
    \/ TickFrom(StallDeltas)
    \/ ArrivalFrom(StallDeltas, StallRand)
    \/ Cleanup

SpecStall == Init /\ [][NextStall]_vars

\* The loop of Run() never stops sampling while simulatedTime < end, and
\* main() calls Cleanup() once it has stopped.
FairSpecStall == SpecStall /\ WF_vars(NextStall)

\* GetRandomPrintJob() and PrintJob::PrintJob exercised on their own.
Generate ==
    \E r1 \in 0 .. MaxRand, r2 \in 0 .. MaxRand :
        /\ drawn' = [called |-> TRUE, r1 |-> r1, r2 |-> r2,
                     pages |-> GetRandomPrintJob(r1, r2)]
        /\ UNCHANGED <<pc, simulatedTime, realTime, lastUpdate, lastUpdateSet,
                       nextJobTime, nextJobTimeSet, jobCount, printers, events,
                       lastTick, lastRoute, report, lateSamples, ticks,
                       tickAnchor, jobAnchor, made>>

Construct ==
    \E pages \in (0 - MaxPagesArg) .. MaxPagesArg :
        /\ jobCount < MaxJobsMade
        /\ made' = [arg |-> pages, job |-> PrintJob(jobCount, pages)]
        /\ jobCount' = jobCount + 1
        /\ UNCHANGED <<pc, simulatedTime, realTime, lastUpdate, lastUpdateSet,
                       nextJobTime, nextJobTimeSet, printers, events, lastTick,
                       lastRoute, report, lateSamples, ticks, tickAnchor,
                       jobAnchor, drawn>>

SpecGenerate == Init /\ [][Generate]_vars

SpecConstruct == Init /\ [][Construct]_vars

\* ---------------------------------------------------------------- claims
RECURSIVE SumPages(_)
SumPages(q) == IF q = <<>> THEN 0 ELSE Head(q).Pages + SumPages(Tail(q))

RECURSIVE SumOver(_, _)
SumOver(f, S) ==
    IF S = {} THEN 0
    ELSE LET x == CHOOSE y \in S : TRUE IN f[x] + SumOver(f, S \ {x})

\* The printers with an empty queue when the last job was routed.
EmptyAtRoute == {i \in Printers : NoJobs(lastRoute.before[i])}

LeftAtRoute(i) == GetTotalPagesLeft(lastRoute.before[i])

\* C1: at every arrival at which some printer has an empty queue, the job
\* goes to the lowest-indexed printer with an empty queue, whatever the
\* totals of the other printers.
C1_IdlePreference ==
    (lastRoute.fired /\ EmptyAtRoute # {}) =>
        /\ lastRoute.sel \in EmptyAtRoute
        /\ \A i \in EmptyAtRoute : lastRoute.sel <= i

\* A job was routed past a busy lower-indexed printer to an empty one.
C1_Witness ==
    /\ lastRoute.fired
    /\ lastRoute.sel > 0
    /\ lastRoute.sel \in EmptyAtRoute
    /\ \E j \in Printers : j < lastRoute.sel /\ LeftAtRoute(j) > 0

\* C2: at every arrival at which no printer has an empty queue, the job goes
\* to a printer whose GetTotalPagesLeft() is minimal, and to the
\* lowest-indexed of the printers that share the minimum.
C2_LeastLoaded ==
    (lastRoute.fired /\ EmptyAtRoute = {}) =>
        \A j \in Printers :
            /\ LeftAtRoute(lastRoute.sel) <= LeftAtRoute(j)
            /\ LeftAtRoute(j) = LeftAtRoute(lastRoute.sel) => lastRoute.sel <= j

\* A job was routed when every printer was busy and two of them tied for the
\* minimum.
C2_Witness ==
    /\ lastRoute.fired
    /\ EmptyAtRoute = {}
    /\ \E j \in Printers :
          j > lastRoute.sel /\ LeftAtRoute(j) = LeftAtRoute(lastRoute.sel)

\* The pages a printer still has to print at time now: the pages of the jobs
\* of its queue less the pages of the head job printed since it started.
Outstanding(p, now) ==
    IF NoJobs(p) THEN 0 ELSE SumPages(p.printQueue) - PagesPrintedAt(p, now)

\* C3: at every arrival the outstanding pages of the printer that receives
\* the job are minimal over all printers.
C3_LeastOutstanding ==
    lastRoute.fired =>
        \A j \in Printers :
            Outstanding(lastRoute.before[lastRoute.sel], lastTick)
                <= Outstanding(lastRoute.before[j], lastTick)

\* C4: for every printer with a non-empty queue, after every tick and every
\* enqueue, 0 <= pagesPrinted <= the pages of the job at the head.
C4_PagesPrintedInRange ==
    pc = "Run" =>
        \A i \in Printers :
            ~NoJobs(printers[i]) =>
                /\ 0 <= printers[i].pagesPrinted
                /\ printers[i].pagesPrinted <= Head(printers[i].printQueue).Pages

\* C5: whenever CheckStartNextJob() starts a job, pagesPrinted of the
\* printer is 0 right after it.
C5_ResetOnStart ==
    \A k \in DOMAIN events :
        events[k].kind = "started" => events[k].printed = 0

EnqueuedOn(route, i) == route.fired /\ route.sel = i

\* C6: from one tick to the next, while the printer is printing and no job
\* is enqueued on it, GetTotalPagesLeft() never increases.
C6_NonIncreasing ==
    [][\A i \in Printers :
          (/\ pc' = "Run"
           /\ lastTick' # lastTick
           /\ printers[i].printing
           /\ printers'[i].printing
           /\ ~EnqueuedOn(lastRoute, i)
           /\ ~EnqueuedOn(lastRoute', i))
          => GetTotalPagesLeft(printers'[i]) <= GetTotalPagesLeft(printers[i])]_vars

\* C7: GetTotalPagesLeft() read right after an enqueue is the value read
\* right before it plus the pages of the job.
C7_EnqueueAddsPages ==
    (pc = "Run" /\ lastRoute.fired) =>
        GetTotalPagesLeft(printers[lastRoute.sel])
            = LeftAtRoute(lastRoute.sel) + lastRoute.job.Pages

\* C8 as stated: whenever the queue is non-empty, totalPagesRemaining is the
\* sum of the pages of the queued jobs minus pagesPrinted.
C8_FieldLessPrinted ==
    \A i \in Printers :
        ~NoJobs(printers[i]) =>
            printers[i].totalPagesRemaining
                = SumPages(printers[i].printQueue) - printers[i].pagesPrinted

\* C8 amended: whenever the queue is non-empty, totalPagesRemaining is the
\* sum of the pages of the queued jobs; the pages printed of the head job
\* are not taken off the field.
C8_FieldIsQueueSum ==
    \A i \in Printers :
        ~NoJobs(printers[i]) =>
            printers[i].totalPagesRemaining = SumPages(printers[i].printQueue)

\* A printer that finished a job has two jobs queued and pages printed.
C8_Witness ==
    \E i \in Printers :
        /\ Len(printers[i].printQueue) >= 2
        /\ printers[i].pagesPrinted > 0
        /\ \E k \in DOMAIN events :
              events[k].kind = "finished" /\ events[k].printer = i

EventsOf(id, kind) ==
    {k \in DOMAIN events : events[k].ID = id /\ events[k].kind = kind}

\* C9: every job that finishes has exactly one "started" line, then exactly
\* one "finished" line of the same printer, no line about the job between
\* the two, and pagesPrinted equal to its pages when it finishes.
C9_CompletionOrdering ==
    \A k \in DOMAIN events :
        events[k].kind = "finished" =>
            /\ EventsOf(events[k].ID, "finished") = {k}
            /\ Cardinality(EventsOf(events[k].ID, "started")) = 1
            /\ \A s \in EventsOf(events[k].ID, "started") :
                  /\ s < k
                  /\ events[s].printer = events[k].printer
                  /\ \A m \in (s + 1) .. (k - 1) : events[m].ID # events[k].ID
            /\ events[k].printed = events[k].Pages

\* Two jobs have finished, one of them started from behind another job.
C9_Witness ==
    \E k, m \in DOMAIN events :
        /\ events[k].kind = "finished"
        /\ events[m].kind = "finished"
        /\ events[m].ID # events[k].ID
        /\ \E s \in EventsOf(events[k].ID, "started") :
              \E a \in EventsOf(events[k].ID, "added") : s > a + 1

PagesOfEvents(kind) ==
    SumOver([k \in DOMAIN events |-> events[k].Pages],
            {k \in DOMAIN events : events[k].kind = kind})

\* The pages of the head job of printer i printed by the last tick.
HeadProgress(i) ==
    LET p == [printers[i] EXCEPT !.printQueue = report[i].jobs]
    IN  IF NoJobs(p) THEN 0 ELSE PagesPrintedAt(p, lastTick)

\* C10: when the run ends, the totals written by Cleanup() plus the pages
\* printed (the finished jobs and the progress of the head jobs) are the
\* pages of all the jobs created.
C10_PageConservation ==
    pc = "Done" =>
        SumOver([i \in Printers |-> report[i].total], Printers)
          + PagesOfEvents("finished")
          + SumOver([i \in Printers |-> HeadProgress(i)], Printers)
        = PagesOfEvents("created")

\* The jobs named by the lines of kind `kind` about printer i, in order.
RECURSIVE IdsOf(_, _, _)
IdsOf(log, kind, i) ==
    IF log = <<>> THEN <<>>
    ELSE LET rest == IdsOf(Tail(log), kind, i)
         IN  IF Head(log).kind = kind /\ Head(log).printer = i
             THEN <<Head(log).ID>> \o rest ELSE rest

IsPrefix(a, b) ==
    /\ Len(a) <= Len(b)
    /\ \A k \in 1 .. Len(a) : a[k] = b[k]

\* The output so far is that of first-in first-out printers.
Fifo(log) ==
    \A i \in Printers :
        LET added == IdsOf(log, "added", i)
            started == IdsOf(log, "started", i)
            finished == IdsOf(log, "finished", i)
        IN  /\ IsPrefix(started, added)
            /\ IsPrefix(finished, started)
            /\ Len(started) <= Len(finished) + 1

\* C11: on every printer the jobs are started and finished in the order in
\* which they were enqueued, a job is started only once the job ahead of it
\* has finished, and at most one job is in progress.
C11_Fifo ==
    /\ Fifo(events)
    /\ \A k \in DOMAIN events :
          /\ events[k].kind = "finished" =>
                \E s \in 1 .. (k - 1) :
                    /\ events[s].kind = "started"
                    /\ events[s].ID = events[k].ID
                    /\ events[s].printer = events[k].printer
          /\ events[k].kind = "started" =>
                \E a \in 1 .. (k - 1) :
                    /\ events[a].kind = "added"
                    /\ events[a].ID = events[k].ID
                    /\ events[a].printer = events[k].printer
                    /\ \A b \in 1 .. (a - 1) :
                          (events[b].kind = "added"
                              /\ events[b].printer = events[k].printer) =>
                              \E f \in (b + 1) .. (k - 1) :
                                  /\ events[f].kind = "finished"
                                  /\ events[f].ID = events[b].ID
                                  /\ events[f].printer = events[k].printer

\* A printer has finished two jobs, the second of which waited in the queue.
C11_Witness ==
    \E i \in Printers :
        /\ Len(IdsOf(events, "finished", i)) >= 2
        /\ \E k \in DOMAIN events :
              /\ events[k].kind = "added"
              /\ events[k].printer = i
              /\ events[k].ID = IdsOf(events, "finished", i)[2]
              /\ k < Len(events)
              /\ events[k + 1].kind # "started"

\* A call of Update() happens in the step.
IsTick == ticks' = ticks + 1

\* C12 as stated: the n-th job is created at the first tick that is at least
\* 30 * n seconds after the start of the simulation.
C12_AnchoredAtStart ==
    [][IsTick =>
          (jobCount' = jobCount + 1
              <=> simulatedTime' >= Seconds(timePerJob * (jobCount + 1)))]_vars

\* C12 amended: the schedule is anchored at the simulated time of the first
\* tick; a tick creates job n exactly when it is at least 30 * n seconds
\* after the anchor, at most one job per tick, and every creation moves the
\* deadline by 30 seconds.
C12_AnchoredAtFirstTick ==
    [][IsTick =>
          /\ jobCount' = jobCount + 1
                <=> simulatedTime' >= jobAnchor' + Seconds(timePerJob * (jobCount + 1))
          /\ jobCount' \in {jobCount, jobCount + 1}
          /\ nextJobTime' = jobAnchor' + Seconds(timePerJob * jobCount')
          /\ ticks = 0 => jobAnchor' = simulatedTime']_vars

\* Two jobs were created less than 30 seconds apart: the schedule caught up
\* after two periods had elapsed.
C12_Witness ==
    \E k, m \in DOMAIN events :
        /\ events[k].kind = "created"
        /\ events[m].kind = "created"
        /\ events[m].ID = events[k].ID + 1
        /\ events[m].at - events[k].at < Seconds(timePerJob)

\* C13: at the end of every iteration of the loop the ticks performed are the
\* whole simulated seconds elapsed since the tick anchor.
C13_TickPerSecond ==
    (pc = "Run" /\ lastUpdateSet) =>
        ticks = ToSeconds(simulatedTime - tickAnchor)

\* C14: GetTotalPagesLeft() is never negative, the totals written at the end
\* of the run included.
C14_TotalNotNegative ==
    \A i \in Printers :
        /\ GetTotalPagesLeft(printers[i]) >= 0
        /\ report[i].total >= 0

TierRange(r) ==
    IF r <= 3 THEN 1 .. 10
    ELSE IF r <= 6 THEN 11 .. 25
    ELSE IF r <= 8 THEN 26 .. 50
    ELSE 51 .. 99

C16_InvalidPages ==
    [][made'.arg <= 0 => (made' = made /\ jobCount' = jobCount)]_vars

\* The lines written in the step.
NewEvents == SubSeq(events', Len(events) + 1, Len(events'))

FinishedInStep(i) ==
    {k \in DOMAIN NewEvents :
        NewEvents[k].kind = "finished" /\ NewEvents[k].printer = i}

\* C17: on every tick the head job of N pages, started at s, is finished if
\* simulatedTime - s >= N * 8571 ms; otherwise it stays at the head and
\* pagesPrinted = floor((simulatedTime - s) / 8571 ms) < N.
C17_CompletionTiming ==
    [][IsTick =>
          \A i \in Printers :
              ~NoJobs(printers[i]) =>
                  LET job == Head(printers[i].printQueue)
                      elapsed == simulatedTime' - printers[i].start
                      sheets == (elapsed \div 1000) \div MILLISECONDS_PER_SHEET
                  IN  IF elapsed >= job.Pages * MILLISECONDS_PER_SHEET * 1000
                      THEN \E k \in FinishedInStep(i) : NewEvents[k].ID = job.ID
                      ELSE /\ FinishedInStep(i) = {}
                           /\ Head(printers'[i].printQueue) = job
                           /\ printers'[i].pagesPrinted = sheets
                           /\ sheets < job.Pages]_vars

\* A job has finished while another is part printed.
C17_Witness ==
    /\ \E k \in DOMAIN events : events[k].kind = "finished"
    /\ \E i \in Printers :
          /\ ~NoJobs(printers[i])
          /\ printers[i].pagesPrinted > 2
          /\ printers[i].pagesPrinted < Head(printers[i].printQueue).Pages

\* C18: the loop exits, it exits only once the simulated time has reached
\* the duration of the run, and no tick or arrival follows its exit.
C18_Termination ==
    /\ <>(pc = "Done")
    /\ [](pc = "Done" => simulatedTime >= Seconds(SECONDS_TO_SIMULATE))
    /\ [][(pc = "Run" /\ simulatedTime >= Seconds(SECONDS_TO_SIMULATE))
             => (pc' = "Done" /\ ticks' = ticks /\ jobCount' = jobCount
                 /\ simulatedTime' = simulatedTime)]_vars

\* The run has ended after ticks and arrivals.
C18_Witness ==
    /\ pc = "Done"
    /\ ticks > 0
    /\ jobCount > 0

\* C19: between operations a printer is printing exactly when its queue is
\* not empty.
C19_PrintingIffQueued ==
    pc = "Run" =>
        \A i \in Printers : printers[i].printing <=> ~NoJobs(printers[i])

\* A printer is printing a job that waited in its queue and was started on
\* the completion of the job ahead of it.
C19_Witness ==
    /\ pc = "Run"
    /\ \E i \in Printers :
          /\ printers[i].printing
          /\ \E k \in DOMAIN events :
                /\ k > 1
                /\ events[k].kind = "started"
                /\ events[k].printer = i
                /\ events[k - 1].kind = "finished"
                /\ events[k].ID = Head(printers[i].printQueue).ID

\* C20: a tick completes at most one job of a printer, and the job that
\* follows it is started at the simulated time of the tick.
C20_OneJobPerTick ==
    [][IsTick =>
          \A i \in Printers :
              /\ Cardinality(FinishedInStep(i)) <= 1
              /\ (FinishedInStep(i) # {} /\ ~NoJobs(printers'[i])) =>
                    /\ printers'[i].printing
                    /\ printers'[i].start = simulatedTime'
                    /\ Head(printers'[i].printQueue).Pages
                          - PagesPrintedAt(printers'[i], simulatedTime')
                       = Head(printers'[i].printQueue).Pages]_vars

\* A job finished on a tick that came more than a sheet after its last page
\* was due, and the job behind it was started on that tick.
C20_Witness ==
    \E k \in DOMAIN events : \E s \in DOMAIN events :
        /\ k < Len(events)
        /\ events[k].kind = "finished"
        /\ events[s].kind = "started"
        /\ events[s].ID = events[k].ID
        /\ events[k].at - events[s].at
              >= (events[k].Pages + 1) * MILLISECONDS_PER_SHEET * 1000
        /\ events[k + 1].kind = "started"
        /\ events[k + 1].printer = events[k].printer
        /\ events[k + 1].at = events[k].at

====
